---- MODULE Spec2Model ----
(***************************************************************************)
(* Model of src/app.py (GPX viewer): parse_gpx_file, calculate_stats,      *)
(* create_map and the control flow of main().                              *)
(*                                                                         *)
(* Numbers.  Python floats are modelled by integers.  Coordinates are      *)
(* whole degrees, elevations whole metres, timestamps whole seconds.       *)
(* Angles in radians and the values of sin/cos/sqrt/atan2 are fixed-point  *)
(* integers with Scale units per 1.0; distances are whole metres.          *)
(* Optional values (Python None) are sequences of length 0 or 1.           *)
(* With Scale = 10^4 the haversine term a is resolved to 10^-4, so the     *)
(* coordinates used are multiples of 10 degrees.  Elevations are finite    *)
(* numbers and the timestamps of one document can be subtracted from one   *)
(* another (all carry a time zone, or none does).                          *)
(*                                                                         *)
(* gpxpy, streamlit, folium and pandas are libraries: gpxpy.parse is       *)
(* modelled by what it accepts (well-formed XML whose trkpt elements have  *)
(* a numeric lat and lon), the rendering calls by what they put on the     *)
(* page and by the possibility that they raise.                            *)
(***************************************************************************)
EXTENDS Integers, Sequences, FiniteSets, TLC

VARIABLES pc, uploaded, parsed, points, stats, rendered, calls, first

vars == <<pc, uploaded, parsed, points, stats, rendered, calls, first>>

(***************************************************************************)
(* Optional values and results of calls that may raise                     *)
(***************************************************************************)
None == <<>>

Some(v) == <<v>>

Raise(e) == [raised |-> Some(e), returned |-> None]

Return(v) == [raised |-> None, returned |-> Some(v)]

(***************************************************************************)
(* Fixed-point arithmetic standing for the math module                     *)
(***************************************************************************)
Scale == 10000

Pi == 31416

Abs(x) == IF x < 0 THEN -x ELSE x

\* x / y rounded toward zero, on signed operands
Quot(x, y) == IF x < 0 THEN -((-x) \div y) ELSE x \div y

\* product of two fixed-point numbers
Mul(x, y) == Quot(x * y, Scale)

\* math.radians on whole degrees
Radians(deg) == Quot(deg * Pi, 180)

\* angle / 2
Half(x) == Quot(x, 2)

RECURSIVE Series(_, _, _, _, _)
\* sum of the alternating power series whose current term is term and
\* whose next term is -term * x^2 / ((k+1)(k+2)); stops at a zero term
Series(x, term, k, acc, fuel) ==
    IF term = 0 \/ fuel = 0 THEN acc
    ELSE Series(x, -Quot(Mul(Quot(Mul(term, x), k + 1), x), k + 2), k + 2,
                acc + term, fuel - 1)

\* math.sin
Sin(x) == Series(x, x, 1, 0, 12)

\* math.cos
Cos(x) == Series(x, Scale, 0, 0, 12)

RECURSIVE SqrtIter(_, _, _)
\* integer square root of n by bisection on lo..hi
SqrtIter(n, lo, hi) ==
    IF lo >= hi THEN lo
    ELSE LET mid == (lo + hi + 1) \div 2
         IN IF mid * mid <= n THEN SqrtIter(n, mid, hi)
            ELSE SqrtIter(n, lo, mid - 1)

\* math.sqrt of a fixed-point number in 0..2
Sqrt(x) == SqrtIter(x * Scale, 0, 2 * Scale)

RECURSIVE AtanSeries(_, _, _, _, _)
\* t - t^3/3 + t^5/5 - ...  with pow the current signed power of t
AtanSeries(t, pow, k, acc, fuel) ==
    IF pow = 0 \/ fuel = 0 THEN acc
    ELSE AtanSeries(t, -Mul(Mul(pow, t), t), k + 2, acc + Quot(pow, k), fuel - 1)

\* tan(theta/2) from t = tan(theta), t >= 0
HalfTan(t) == Quot(t * Scale, Scale + SqrtIter(Scale * Scale + t * t, 0, 2 * Scale))

\* atan of t in 0..1, by two angle halvings and the power series
Atan(t) == 4 * AtanSeries(HalfTan(HalfTan(t)), HalfTan(HalfTan(t)), 1, 0, 12)

\* math.atan2 for y >= 0, x >= 0 (both are square roots in the caller)
Atan2(y, x) ==
    IF y = 0 THEN 0
    ELSE IF x = 0 THEN Quot(Pi, 2)
    ELSE IF y <= x THEN Atan(Quot(y * Scale, x))
    ELSE Quot(Pi, 2) - Atan(Quot(x * Scale, y))

(***************************************************************************)
(* calculate_stats: great-circle distance of one consecutive pair          *)
(***************************************************************************)
\* radius of the earth in metres
R == 6371000

\* R * c, with c a fixed-point angle; the result is in whole metres
TimesR(c) == Quot((R \div 1000) * c, Scale \div 1000)

\* the body of the distance loop: the distance added for the pair
\* (points[i-1], points[i])
Distance(p1, p2) ==
    LET lat1 == p1.latitude
        lon1 == p1.longitude
        lat2 == p2.latitude
        lon2 == p2.longitude
        lat1_rad == Radians(lat1)
        lat2_rad == Radians(lat2)
        delta_lat == Radians(lat2 - lat1)
        delta_lon == Radians(lon2 - lon1)
        sin_lat == Sin(Half(delta_lat))
        sin_lon == Sin(Half(delta_lon))
        a == Mul(sin_lat, sin_lat)
               + Mul(Mul(Cos(lat1_rad), Cos(lat2_rad)), Mul(sin_lon, sin_lon))
        c == 2 * Atan2(Sqrt(a), Sqrt(Scale - a))
    IN TimesR(c)

(***************************************************************************)
(* Python built-ins used by the code                                       *)
(***************************************************************************)
\* the empty dict {}
EmptyDict == [k \in {} |-> 0]

\* dict.update: the entries of new override those of old
Update(old, new) == new @@ old

\* dict.get(key, default)
Get(d, key, default) == IF key \in DOMAIN d THEN d[key] ELSE default

RECURSIVE MinFrom(_, _, _)
MinFrom(xs, i, m) ==
    IF i > Len(xs) THEN m
    ELSE MinFrom(xs, i + 1, IF xs[i] < m THEN xs[i] ELSE m)

\* min(list), list non-empty
PyMin(xs) == MinFrom(xs, 2, xs[1])

RECURSIVE MaxFrom(_, _, _)
MaxFrom(xs, i, m) ==
    IF i > Len(xs) THEN m
    ELSE MaxFrom(xs, i + 1, IF xs[i] > m THEN xs[i] ELSE m)

\* max(list), list non-empty
PyMax(xs) == MaxFrom(xs, 2, xs[1])

\* x / 100
Div100(x) == [whole |-> x \div 100, frac |-> x % 100]

\* x / 1000 as a decimal number with three decimal places
Div1000(x) == [whole |-> x \div 1000, frac |-> x % 1000]

\* datetime - datetime: a timedelta, normalised to 0 <= seconds < 86400
TimeDiff(t2, t1) == [days |-> (t2 - t1) \div 86400, seconds |-> (t2 - t1) % 86400]

\* str(timedelta): "[D day[s], ]H:MM:SS"; the day part is left out
\* (unit "") when days = 0
TimedeltaStr(td) ==
    [days |-> td.days,
     unit |-> IF td.days = 0 THEN ""
              ELSE IF Abs(td.days) = 1 THEN "day" ELSE "days",
     hh |-> td.seconds \div 3600,
     mm |-> (td.seconds \div 60) % 60,
     ss |-> td.seconds % 60]

(***************************************************************************)
(* parse_gpx_file                                                          *)
(***************************************************************************)
\* true when the attribute text converts to a float
IsFloat(attr) == attr.kind = "num"

\* the points of a document, whatever their position
RawPointsOf(doc) ==
    UNION {UNION {{doc.tracks[t][s][p] : p \in 1..Len(doc.tracks[t][s])}
                  : s \in 1..Len(doc.tracks[t])}
           : t \in 1..Len(doc.tracks)}

\* a GPXTrackPoint
TrackPointOf(raw) ==
    [latitude |-> raw.lat.val, longitude |-> raw.lon.val,
     elevation |-> raw.ele, time |-> raw.time]

\* gpxpy.parse: the whole document is read before anything is returned;
\* bytes that are not XML, and a trkpt whose mandatory lat or lon is missing
\* or not a number, raise
gpxpy_parse(gpx_file) ==
    IF ~gpx_file.xml THEN Raise("GPXXMLSyntaxException")
    ELSE IF \E raw \in RawPointsOf(gpx_file) : ~IsFloat(raw.lat) \/ ~IsFloat(raw.lon)
         THEN Raise("GPXException")
    ELSE Return([tracks |->
           [t \in 1..Len(gpx_file.tracks) |->
              [segments |->
                 [s \in 1..Len(gpx_file.tracks[t]) |->
                    [points |->
                       [p \in 1..Len(gpx_file.tracks[t][s]) |->
                          TrackPointOf(gpx_file.tracks[t][s][p])]]]]]])

\* a list that outlives the call: the one the last call filled
StaleList == points

\* points = []
NewList == <<>>

RECURSIVE PointLoop(_, _, _)
\* for point in segment.points: points.append({...})
PointLoop(segment, i, acc) ==
    IF i > Len(segment.points) THEN acc
    ELSE PointLoop(segment, i + 1,
                   Append(acc, [latitude |-> segment.points[i].latitude,
                                longitude |-> segment.points[i].longitude,
                                elevation |-> segment.points[i].elevation,
                                time |-> segment.points[i].time]))

\* SegmentLoop reading track.segments[0] only
SegmentLoopFirstOnly(track, j, acc) ==
    IF Len(track.segments) = 0 THEN acc
    ELSE PointLoop(track.segments[1], 1, acc)

RECURSIVE SegmentLoop(_, _, _)
\* for segment in track.segments
SegmentLoop(track, j, acc) ==
    IF j > Len(track.segments) THEN acc
    ELSE SegmentLoop(track, j + 1, PointLoop(track.segments[j], 1, acc))

RECURSIVE TrackLoop(_, _, _)
\* for track in gpx.tracks
TrackLoop(gpx, k, acc) ==
    IF k > Len(gpx.tracks) THEN acc
    ELSE TrackLoop(gpx, k + 1, SegmentLoop(gpx.tracks[k], 1, acc))

\* parse_gpx_file with a handler that returns the list on an exception
parse_gpx_file_swallow(gpx_file) ==
    LET gpx == gpxpy_parse(gpx_file)
    IN IF gpx.raised /= None THEN Return(NewList)
       ELSE Return(TrackLoop(gpx.returned[1], 1, NewList))

parse_gpx_file(gpx_file) ==
    LET gpx == gpxpy_parse(gpx_file)
    IN IF gpx.raised /= None THEN Raise(gpx.raised[1])
       ELSE Return(TrackLoop(gpx.returned[1], 1, NewList))

(***************************************************************************)
(* calculate_stats                                                         *)
(***************************************************************************)
RECURSIVE DistanceLoop(_, _, _)
\* for i in range(1, len(points)): total_distance += distance
\* (i is the 1-based index of the second point of the pair)
DistanceLoop(pts, i, total_distance) ==
    IF i > Len(pts) THEN total_distance
    ELSE DistanceLoop(pts, i + 1, total_distance + Distance(pts[i - 1], pts[i]))

RECURSIVE Elevations(_, _)
\* [p['elevation'] for p in points if p['elevation'] is not None]
Elevations(pts, i) ==
    IF i > Len(pts) THEN <<>>
    ELSE IF pts[i].elevation /= None
         THEN <<pts[i].elevation[1]>> \o Elevations(pts, i + 1)
         ELSE Elevations(pts, i + 1)

RECURSIVE Times(_, _)
\* [p['time'] for p in points if p['time'] is not None]
Times(pts, i) ==
    IF i > Len(pts) THEN <<>>
    ELSE IF pts[i].time /= None
         THEN <<pts[i].time[1]>> \o Times(pts, i + 1)
         ELSE Times(pts, i + 1)

\* BaseStats counting the points that have an elevation
BaseStatsCountElevation(pts) ==
    [total_distance |-> Div1000(DistanceLoop(pts, 2, 0)),
     total_points |-> Len(Elevations(pts, 1))]

\* the stats dict with the two keys that are always set
BaseStats(pts) ==
    [total_distance |-> Div1000(DistanceLoop(pts, 2, 0)),
     total_points |-> Len(pts)]

\* WithElevation with the operands of the gain exchanged
WithElevationSwapped(st, elevations) ==
    IF elevations /= <<>>
    THEN Update(st, [min_elevation |-> PyMin(elevations),
                     max_elevation |-> PyMax(elevations),
                     elevation_gain |-> PyMin(elevations) - PyMax(elevations)])
    ELSE st

\* if elevations: stats.update({...})
WithElevation(st, elevations) ==
    IF elevations /= <<>>
    THEN Update(st, [min_elevation |-> PyMin(elevations),
                     max_elevation |-> PyMax(elevations),
                     elevation_gain |-> PyMax(elevations) - PyMin(elevations)])
    ELSE st

\* WithDuration from the earliest to the latest timestamp
WithDurationChronological(st, times) ==
    IF Len(times) > 1
    THEN Update(st, [duration |-> TimedeltaStr(TimeDiff(PyMax(times), PyMin(times)))])
    ELSE st

\* if len(times) > 1: stats['duration'] = str(times[-1] - times[0])
WithDuration(st, times) ==
    IF Len(times) > 1
    THEN Update(st, [duration |-> TimedeltaStr(TimeDiff(times[Len(times)], times[1]))])
    ELSE st

\* calculate_stats without the test for the empty list
calculate_stats_unguarded(pts) ==
    WithDuration(WithElevation(BaseStats(pts), Elevations(pts, 1)), Times(pts, 1))

calculate_stats(pts) ==
    IF pts = <<>> THEN EmptyDict
    ELSE WithDuration(WithElevation(BaseStats(pts), Elevations(pts, 1)), Times(pts, 1))

\* the list object passed to calculate_stats, after the call: the function
\* only reads it
PointsAfterStats(pts) == pts

(***************************************************************************)
(* create_map                                                              *)
(***************************************************************************)
RECURSIVE SumField(_, _, _)
SumField(pts, i, field) ==
    IF i > Len(pts) THEN 0 ELSE pts[i][field] + SumField(pts, i + 1, field)

create_map(pts) ==
    IF pts = <<>> THEN None
    ELSE Some([location |-> <<[num |-> SumField(pts, 1, "latitude"), den |-> Len(pts)],
                              [num |-> SumField(pts, 1, "longitude"), den |-> Len(pts)]>>,
               polyline |-> [i \in 1..Len(pts) |-> <<pts[i].latitude, pts[i].longitude>>],
               start |-> <<pts[1].latitude, pts[1].longitude>>,
               goal |-> <<pts[Len(pts)].latitude, pts[Len(pts)].longitude>>])

(***************************************************************************)
(* Uploaded documents                                                      *)
(***************************************************************************)
MaxTracks == 2

MaxSegs == 2

MaxPts == 2

MaxLen == 3

\* most points of a document with tracks and segments
MaxTotal == 3

SeqsUpTo(S, n) == UNION {[1..k -> S] : k \in 0..n}

\* attribute texts of a trkpt
Num(v) == [kind |-> "num", val |-> v]

Missing == [kind |-> "missing", val |-> 0]

Text == [kind |-> "text", val |-> 0]

RECURSIVE SumSeq(_, _)
\* xs[1] + ... + xs[n]
SumSeq(xs, n) == IF n = 0 THEN 0 ELSE xs[n] + SumSeq(xs, n - 1)

\* a shape gives, per track and per segment, the number of points
TrackSize(shape, t) == SumSeq(shape[t], Len(shape[t]))

RECURSIVE TracksSize(_, _)
\* number of points in the first n tracks
TracksSize(shape, n) ==
    IF n = 0 THEN 0 ELSE TrackSize(shape, n) + TracksSize(shape, n - 1)

\* number of points that precede segment s of track t in the document
Before(shape, t, s) == TracksSize(shape, t - 1) + SumSeq(shape[t], s - 1)

RECURSIVE SegLists(_, _)
\* the lists of n segment sizes that sum to at most budget
SegLists(n, budget) ==
    IF n = 0 THEN {<<>>}
    ELSE UNION {{Append(sizes, k) :
                    k \in 0..(IF MaxPts < budget - SumSeq(sizes, n - 1)
                              THEN MaxPts ELSE budget - SumSeq(sizes, n - 1))}
                : sizes \in SegLists(n - 1, budget)}

\* the shapes of one track of at most budget points
TrackShapes(budget) == UNION {SegLists(n, budget) : n \in 0..MaxSegs}

RECURSIVE TrackLists(_, _)
\* the shapes of n tracks of at most budget points together
TrackLists(n, budget) ==
    IF n = 0 THEN {<<>>}
    ELSE UNION {{Append(shape, track) :
                    track \in TrackShapes(budget - TracksSize(shape, n - 1))}
                : shape \in TrackLists(n - 1, budget)}

ShapeSet == UNION {TrackLists(n, MaxTotal) : n \in 0..MaxTracks}

\* the point written at position p of segment s of track t: every position
\* of a document carries a different point
PointAt(t, s, p) ==
    [lat |-> Num(30 * (t - 1) + 10 * (s - 1)), lon |-> Num(10 * p),
     ele |-> Some(100 * s + p), time |-> None]

\* a point without lat (odd n) or with a lon that is not a number (even n)
Corrupt(raw, n) ==
    IF n % 2 = 1 THEN [raw EXCEPT !.lat = Missing]
    ELSE [raw EXCEPT !.lon = Text]

\* the document of a shape; its badAt-th point is corrupted (none when
\* badAt is 0 or exceeds the number of points)
ShapedDoc(shape, badAt) ==
    [xml |-> TRUE,
     tracks |-> [t \in 1..Len(shape) |->
                   [s \in 1..Len(shape[t]) |->
                      [p \in 1..shape[t][s] |->
                         IF Before(shape, t, s) + p = badAt
                         THEN Corrupt(PointAt(t, s, p), badAt)
                         ELSE PointAt(t, s, p)]]]]

\* points with and without elevation and timestamp, at equal and at
\* different coordinates
RichPoints ==
    {[lat |-> Num(c[1]), lon |-> Num(c[2]), ele |-> e, time |-> None] :
        c \in {<<0, 0>>, <<30, 60>>}, e \in {None, Some(-5), Some(250)}}
    \cup {[lat |-> Num(0), lon |-> Num(0), ele |-> None, time |-> Some(t)] :
             t \in {0, 90000}}
    \cup {[lat |-> Num(30), lon |-> Num(0), ele |-> Some(250), time |-> Some(3700)]}

\* one track with one segment
FlatDoc(pts) == [xml |-> TRUE, tracks |-> <<<<pts>>>>]

\* bytes that are not XML
GarbageDoc == [xml |-> FALSE, tracks |-> <<>>]

\* file is one of the files a user may upload
Uploaded(file) ==
    \/ file = Some(GarbageDoc)
    \/ \E shape \in ShapeSet : \E badAt \in {0, 1, TracksSize(shape, Len(shape))} :
          file = Some(ShapedDoc(shape, badAt))
    \/ \E pts \in SeqsUpTo(RichPoints, MaxLen) : file = Some(FlatDoc(pts))

(***************************************************************************)
(* main(): one run of the script per action sequence start .. done         *)
(***************************************************************************)
Render(kind, body) == [kind |-> kind, body |-> body]

NoCalls == [parse |-> 0, stats |-> 0, map |-> 0]

Init ==
    /\ pc = "start"
    /\ uploaded = None
    /\ parsed = None
    /\ points = <<>>
    /\ stats = EmptyDict
    /\ rendered = <<>>
    /\ calls = NoCalls
    /\ first = None

\* Handler reporting a fixed text
HandlerGeneric(shown, e) ==
    shown \o <<Render("exception", "error"), Render("format_hint", "")>>

\* except Exception as e: two st.error calls
Handler(shown, e) ==
    shown \o <<Render("exception", e), Render("format_hint", "")>>

\* uploaded_file is None: the usage text
RunWithoutFile ==
    /\ pc = "start"
    /\ uploaded' = None
    /\ rendered' = <<Render("info", ""), Render("usage", "")>>
    /\ pc' = "done"
    /\ UNCHANGED <<parsed, points, stats, calls, first>>

\* a file has been uploaded: the sidebar reports it
RunWithFile ==
    /\ pc = "start"
    /\ Uploaded(uploaded')
    /\ rendered' = <<Render("success", "")>>
    /\ pc' = "parse"
    /\ UNCHANGED <<parsed, points, stats, calls, first>>

\* ParseStep without the test for the empty list
ParseStepUnchecked ==
    /\ pc = "parse"
    /\ LET r == parse_gpx_file(uploaded[1])
       IN /\ parsed' = Some(r)
          /\ calls' = [calls EXCEPT !.parse = @ + 1]
          /\ IF r.raised /= None
             THEN /\ rendered' = Handler(rendered, r.raised[1])
                  /\ pc' = "done"
                  /\ UNCHANGED points
             ELSE /\ points' = r.returned[1]
                  /\ pc' = "stats"
                  /\ UNCHANGED rendered
    /\ UNCHANGED <<uploaded, stats, first>>

\* points = parse_gpx_file(uploaded_file); if not points: st.error; return
ParseStep ==
    /\ pc = "parse"
    /\ LET r == parse_gpx_file(uploaded[1])
       IN /\ parsed' = Some(r)
          /\ calls' = [calls EXCEPT !.parse = @ + 1]
          /\ IF r.raised /= None
             THEN /\ rendered' = Handler(rendered, r.raised[1])
                  /\ pc' = "done"
                  /\ UNCHANGED points
             ELSE /\ points' = r.returned[1]
                  /\ IF r.returned[1] = <<>>
                     THEN /\ rendered' = Append(rendered, Render("no_track_data", ""))
                          /\ pc' = "done"
                     ELSE /\ pc' = "stats"
                          /\ UNCHANGED rendered
    /\ UNCHANGED <<uploaded, stats, first>>

\* stats = calculate_stats(points)
StatsStep ==
    /\ pc = "stats"
    /\ stats' = calculate_stats(points)
    /\ points' = PointsAfterStats(points)
    /\ calls' = [calls EXCEPT !.stats = @ + 1]
    /\ pc' = "map"
    /\ UNCHANGED <<uploaded, parsed, rendered, first>>

\* with col1: subheader; map_obj = create_map(points); st_folium(map_obj)
MapStep ==
    /\ pc = "map"
    /\ calls' = [calls EXCEPT !.map = @ + 1]
    /\ LET map_obj == create_map(points)
           shown == Append(rendered, Render("subheader", "map"))
       IN rendered' = IF map_obj /= None
                      THEN Append(shown, Render("map", map_obj[1]))
                      ELSE shown
    /\ pc' = "metrics"
    /\ UNCHANGED <<uploaded, parsed, points, stats, first>>

\* the same, with the map component raising
MapStepRaises ==
    /\ pc = "map"
    /\ calls' = [calls EXCEPT !.map = @ + 1]
    /\ create_map(points) /= None
    /\ rendered' = Handler(Append(rendered, Render("subheader", "map")), "st_folium")
    /\ pc' = "done"
    /\ UNCHANGED <<uploaded, parsed, points, stats, first>>

\* the st.metric calls of col2
Metrics(st) ==
    <<Render("metric", <<"total_distance", Get(st, "total_distance", 0)>>),
      Render("metric", <<"total_points", Get(st, "total_points", 0)>>)>>
    \o (IF "min_elevation" \in DOMAIN st
        THEN <<Render("metric", <<"min_elevation", st["min_elevation"]>>),
               Render("metric", <<"max_elevation", st["max_elevation"]>>),
               Render("metric", <<"elevation_gain", st["elevation_gain"]>>)>>
        ELSE <<>>)
    \o (IF "duration" \in DOMAIN st
        THEN <<Render("metric", <<"duration", st["duration"]>>)>>
        ELSE <<>>)

\* with col2: subheader and metrics
MetricsStep ==
    /\ pc = "metrics"
    /\ rendered' = Append(rendered, Render("subheader", "stats")) \o Metrics(stats)
    /\ pc' = "table"
    /\ UNCHANGED <<uploaded, parsed, points, stats, calls, first>>

\* number of rows of the table
TableRows == 10

\* points[:10]
FirstRows(pts) == SubSeq(pts, 1, IF Len(pts) < TableRows THEN Len(pts) ELSE TableRows)

\* subheader, DataFrame of the first rows, st.dataframe
TableStep ==
    /\ pc = "table"
    /\ rendered' = rendered \o <<Render("subheader", "points"),
                                 Render("table", FirstRows(points))>>
    /\ pc' = "done"
    /\ UNCHANGED <<uploaded, parsed, points, stats, calls, first>>

\* the same, with the DataFrame formatting or st.dataframe raising
TableStepRaises ==
    /\ pc = "table"
    /\ rendered' = Handler(Append(rendered, Render("subheader", "points")), "dataframe")
    /\ pc' = "done"
    /\ UNCHANGED <<uploaded, parsed, points, stats, calls, first>>

\* the script is run again from the top; nothing of the last run is kept
Rerun ==
    /\ pc = "done"
    /\ pc' = "start"
    /\ uploaded' = None
    /\ parsed' = None
    /\ points' = <<>>
    /\ stats' = EmptyDict
    /\ rendered' = <<>>
    /\ calls' = NoCalls
    /\ UNCHANGED first

Next ==
    \/ RunWithoutFile
    \/ RunWithFile
    \/ ParseStep
    \/ StatsStep
    \/ MapStep
    \/ MapStepRaises
    \/ MetricsStep
    \/ TableStep
    \/ TableStepRaises
    \/ Rerun

Spec == Init /\ [][Next]_vars

(***************************************************************************)
(* The core called directly: parse then compute, twice on the same bytes   *)
(***************************************************************************)
InitCore ==
    /\ pc = "core_parse"
    /\ Uploaded(uploaded)
    /\ parsed = None
    /\ points = <<>>
    /\ stats = EmptyDict
    /\ rendered = <<>>
    /\ calls = NoCalls
    /\ first = None

CoreParse ==
    /\ pc = "core_parse"
    /\ LET r == parse_gpx_file(uploaded[1])
       IN /\ parsed' = Some(r)
          /\ IF r.raised /= None
             THEN pc' = "core_raised" /\ UNCHANGED points
             ELSE pc' = "core_stats" /\ points' = r.returned[1]
    /\ calls' = [calls EXCEPT !.parse = @ + 1]
    /\ UNCHANGED <<uploaded, stats, rendered, first>>

CoreStats ==
    /\ pc = "core_stats"
    /\ stats' = calculate_stats(points)
    /\ points' = PointsAfterStats(points)
    /\ calls' = [calls EXCEPT !.stats = @ + 1]
    /\ pc' = "core_end"
    /\ UNCHANGED <<uploaded, parsed, rendered, first>>

\* keep the results of the first pass and start the second
CoreAgain ==
    /\ pc \in {"core_raised", "core_end"}
    /\ first = None
    /\ first' = Some([parsed |-> parsed, points |-> points, stats |-> stats, pc |-> pc])
    /\ pc' = "core_parse"
    /\ UNCHANGED <<uploaded, parsed, points, stats, rendered, calls>>

NextCore == CoreParse \/ CoreStats \/ CoreAgain

SpecCore == InitCore /\ [][NextCore]_vars

(***************************************************************************)
(* Vocabulary of the properties                                            *)
(***************************************************************************)
Doc == uploaded[1]

\* the shape of a document: the number of points of each segment
ShapeOf(doc) ==
    [t \in 1..Len(doc.tracks) |->
       [s \in 1..Len(doc.tracks[t]) |-> Len(doc.tracks[t][s])]]

TotalPoints(doc) == TracksSize(ShapeOf(doc), Len(doc.tracks))

\* not XML, or some point without a numeric lat and lon
Malformed(doc) ==
    \/ ~doc.xml
    \/ \E t \in 1..Len(doc.tracks) : \E s \in 1..Len(doc.tracks[t]) :
         \E p \in 1..Len(doc.tracks[t][s]) :
            \/ doc.tracks[t][s][p].lat.kind /= "num"
            \/ doc.tracks[t][s][p].lon.kind /= "num"

ParseReturned == parsed /= None /\ parsed[1].returned /= None

ParseRaised == parsed /= None /\ parsed[1].raised /= None

\* the core has computed statistics of a non-empty sequence
StatsDone == pc = "core_end" /\ points /= <<>>

Kinds(shown) == [i \in 1..Len(shown) |-> shown[i].kind]

Shows(kind) == \E i \in 1..Len(rendered) : rendered[i].kind = kind

HasElevation == {i \in 1..Len(points) : points[i].elevation /= None}

HasTime == {i \in 1..Len(points) : points[i].time /= None}

SetMin(S) == CHOOSE x \in S : \A y \in S : x <= y

SetMax(S) == CHOOSE x \in S : \A y \in S : x >= y

SameCoords(p, q) == p.latitude = q.latitude /\ p.longitude = q.longitude

\* a point reduced to its coordinates
CoordsOnly(p) ==
    [latitude |-> p.latitude, longitude |-> p.longitude,
     elevation |-> None, time |-> None]

RECURSIVE PairSum(_, _)
\* sum over the pairs (i, i+1), i in 1..n, of the distance between the
\* coordinates of the two points
PairSum(pts, n) ==
    IF n = 0 THEN 0
    ELSE Distance(CoordsOnly(pts[n]), CoordsOnly(pts[n + 1])) + PairSum(pts, n - 1)

\* seconds denoted by a formatted duration
DurationSeconds(d) == d.days * 86400 + d.hh * 3600 + d.mm * 60 + d.ss

ElevationKeys == {"min_elevation", "max_elevation", "elevation_gain"}

(***************************************************************************)
(* Properties                                                              *)
(***************************************************************************)
\* C1: when parse_gpx_file returns, its result has as many points as the
\* document, and the p-th point of segment s of track t stands at the index
\* given by the number of points that precede it in document order
C1_Flattened ==
    ParseReturned =>
        LET out == parsed[1].returned[1]
        IN /\ Len(out) = TotalPoints(Doc)
           /\ \A t \in 1..Len(Doc.tracks) : \A s \in 1..Len(Doc.tracks[t]) :
                \A p \in 1..Len(Doc.tracks[t][s]) :
                   out[Before(ShapeOf(Doc), t, s) + p]
                       = TrackPointOf(Doc.tracks[t][s][p])

C1_Witness ==
    /\ ParseReturned
    /\ Len(Doc.tracks) = 2
    /\ Len(Doc.tracks[1]) = 2
    /\ Len(Doc.tracks[1][1]) = 1 /\ Len(Doc.tracks[1][2]) = 1
    /\ Len(Doc.tracks[2]) = 2
    /\ Len(Doc.tracks[2][1]) = 0 /\ Len(Doc.tracks[2][2]) = 1

\* C2: parsing a malformed document raises, and a parse that raises returns
\* nothing and leaves no point behind
C2_NoPartialResult ==
    parsed /= None =>
        /\ Malformed(Doc) => parsed[1].raised /= None
        /\ parsed[1].raised /= None => parsed[1].returned = None /\ points = <<>>

C2_Witness ==
    /\ ParseRaised
    /\ Doc.xml
    /\ Len(Doc.tracks) >= 1 /\ Len(Doc.tracks[1]) >= 1 /\ Len(Doc.tracks[1][1]) = 2
    /\ IsFloat(Doc.tracks[1][1][1].lat) /\ IsFloat(Doc.tracks[1][1][1].lon)
    /\ ~IsFloat(Doc.tracks[1][1][2].lon)

\* C3 as stated: for a well-formed document without points, parse returns
\* the empty sequence and the statistics have total_points = 0, total
\* distance 0 and no optional field
C3_EmptyHasZeroCount ==
    (pc = "core_end" /\ TotalPoints(Doc) = 0) =>
        /\ parsed[1].returned = Some(<<>>)
        /\ "total_points" \in DOMAIN stats /\ stats["total_points"] = 0
        /\ "total_distance" \in DOMAIN stats /\ stats["total_distance"] = Div1000(0)
        /\ DOMAIN stats \cap (ElevationKeys \cup {"duration"}) = {}

\* C3 amended: for a well-formed document without points, parse returns the
\* empty sequence without raising, and the statistics are the empty dict:
\* no field at all; total_points and total_distance read as 0 only through
\* the default of dict.get
C3_EmptyIsEmptyDict ==
    /\ (parsed /= None /\ Doc.xml /\ TotalPoints(Doc) = 0)
          => parsed[1] = Return(<<>>)
    /\ (pc = "core_end" /\ TotalPoints(Doc) = 0) =>
          /\ DOMAIN stats = {}
          /\ Get(stats, "total_points", 0) = 0
          /\ Get(stats, "total_distance", 0) = 0

C3_Witness ==
    /\ pc = "core_end"
    /\ Len(Doc.tracks) = 2 /\ Len(Doc.tracks[1]) = 2
    /\ TotalPoints(Doc) = 0

\* C4: for a non-empty sequence, total_points is the length of the sequence
C4_TotalPoints == StatsDone => stats["total_points"] = Len(points)

C4_Witness ==
    /\ StatsDone
    /\ Len(points) = 3
    /\ Cardinality(HasElevation) = 1
    /\ Cardinality(HasTime) = 1

\* C5: for a non-empty sequence of n points, total_distance times 1000 is
\* the sum over the n-1 consecutive pairs of the distance between their
\* coordinates; it is 0 for one point and for two points at the same
\* coordinates
C5_TotalDistance ==
    StatsDone =>
        LET td == stats["total_distance"]
        IN /\ td.frac \in 0..999
           /\ td.whole * 1000 + td.frac = PairSum(points, Len(points) - 1)
           /\ Len(points) = 1 => td = Div1000(0)
           /\ (Len(points) = 2 /\ SameCoords(points[1], points[2])) => td = Div1000(0)

C5_Witness ==
    /\ StatsDone
    /\ Len(points) = 3
    /\ SameCoords(points[1], points[2])
    /\ points[1].elevation = Some(-5) /\ points[2].elevation = Some(250)
    /\ ~SameCoords(points[2], points[3])
    /\ stats["total_distance"].whole > 0

\* C6: for a non-empty sequence, the three elevation fields are all absent
\* when no point has an elevation; otherwise all are present, the minimum
\* and the maximum are those of the elevations present, and the gain is
\* their difference
C6_Elevation ==
    StatsDone =>
        IF HasElevation = {}
        THEN DOMAIN stats \cap ElevationKeys = {}
        ELSE /\ ElevationKeys \subseteq DOMAIN stats
             /\ stats["min_elevation"] = SetMin({points[i].elevation[1] : i \in HasElevation})
             /\ stats["max_elevation"] = SetMax({points[i].elevation[1] : i \in HasElevation})
             /\ stats["min_elevation"] <= stats["max_elevation"]
             /\ stats["elevation_gain"] = stats["max_elevation"] - stats["min_elevation"]
             /\ stats["elevation_gain"] >= 0

C6_Witness ==
    /\ StatsDone
    /\ Len(points) = 3
    /\ points[1].elevation = Some(250)
    /\ points[2].elevation = None
    /\ points[3].elevation = Some(-5)
    /\ stats["elevation_gain"] = 255

\* C7: for a non-empty sequence, duration is absent when fewer than two
\* points have a timestamp; otherwise it denotes the timestamp of the last
\* point that has one minus the timestamp of the first point that has one
C7_Duration ==
    StatsDone =>
        IF Cardinality(HasTime) < 2
        THEN "duration" \notin DOMAIN stats
        ELSE /\ "duration" \in DOMAIN stats
             /\ DurationSeconds(stats["duration"])
                   = points[SetMax(HasTime)].time[1] - points[SetMin(HasTime)].time[1]
             /\ stats["duration"].hh >= 0
             /\ stats["duration"].mm \in 0..59
             /\ stats["duration"].ss \in 0..59

C7_Witness ==
    /\ StatsDone
    /\ Len(points) = 3
    /\ points[1].time = Some(90000)
    /\ points[2].time = None
    /\ points[3].time = Some(0)
    /\ stats["duration"].days = -2

C9_EmptyStops ==
    /\ (ParseReturned /\ parsed[1].returned[1] = <<>>) =>
          /\ pc = "done"
          /\ Kinds(rendered) = <<"success", "no_track_data">>
          /\ calls.stats = 0 /\ calls.map = 0
    /\ (calls.stats > 0 \/ calls.map > 0) =>
          /\ ParseReturned
          /\ parsed[1].returned[1] /= <<>>
          /\ points = parsed[1].returned[1]

C9_Witness ==
    /\ pc = "done"
    /\ ParseReturned
    /\ Len(Doc.tracks) = 2
    /\ points = <<>>
    /\ Shows("no_track_data")

\* C10 as stated: parse is attempted once per upload, and when an error is
\* reported no map, metric or table of that upload has been rendered
C10_NothingRenderedOnError ==
    /\ calls.parse <= 1
    /\ Shows("exception") => ~(Shows("map") \/ Shows("metric") \/ Shows("table"))

\* C10 amended: parse is attempted exactly once per upload; an error is
\* reported once, with its cause, and ends the run; when parse raised,
\* nothing but the upload notice precedes the report; when a render step
\* raised, what was rendered before that step stays: the map and the
\* metrics may precede the report, the table never does
C10_ErrorReported ==
    /\ calls.parse <= 1
    /\ (uploaded /= None /\ pc /= "parse") => calls.parse = 1
    /\ Shows("exception") =>
          /\ pc = "done"
          /\ Len(rendered) >= 2
          /\ Kinds(rendered)[Len(rendered) - 1] = "exception"
          /\ Kinds(rendered)[Len(rendered)] = "format_hint"
          /\ \A i \in 1..(Len(rendered) - 2) : rendered[i].kind /= "exception"
          /\ rendered[Len(rendered) - 1].body
                \in {"GPXXMLSyntaxException", "GPXException", "st_folium", "dataframe"}
          /\ ~Shows("table")
    /\ ParseRaised =>
          /\ Kinds(rendered) = <<"success", "exception", "format_hint">>
          /\ rendered[2].body = parsed[1].raised[1]
          /\ calls.stats = 0 /\ calls.map = 0

C10_Witness ==
    /\ pc = "done"
    /\ Shows("exception")
    /\ Shows("map")
    /\ Shows("metric")

====
